---- MODULE Spec2Model ----
(***************************************************************************)
(* Model of the eBay listings scraper:                                     *)
(*   process_keywords / KeywordScraper  (ebay_listings_data_extraction.py) *)
(*   MyEbayListingExcel                 (ebay_listings_xlsx_writer.py)     *)
(* One run of process_keywords is one behaviour.  The driver, the file     *)
(* system, the spreadsheet library and the user are the environment: each  *)
(* call into them is a choice among the outcomes the call can have.        *)
(***************************************************************************)
EXTENDS Integers, Sequences, FiniteSets, TLC

\* ---------------------------------------------------------------- constants

\* MAX_SCRAPE_ROW: int = 100
MAX_SCRAPE_ROW == 100

\* ------------------------------------------------------------------- bounds

\* longest keyword list given to process_keywords
MaxTerms == 2
\* a results page holds at most MAX_SCRAPE_ROW + MaxExtra listing elements
MaxExtra == 1
\* the batches followed cell by cell hold at most MaxPage listing elements
MaxPage == 2

\* --------------------------------------------------------------- input sets

Space == " "

\* keywords as the caller may type them: "", " ", " a ", "b"
RawTerms ==
  { <<>>, <<Space>>, <<Space, "a", Space>>, <<"b">> }

RECURSIVE SeqsUpTo(_, _)
SeqsUpTo(S, n) ==
  IF n = 0 THEN { <<>> }
  ELSE LET shorter == SeqsUpTo(S, n - 1)
       IN  shorter \cup { Append(s, x) : s \in { t \in shorter : Len(t) = n - 1 }, x \in S }

KeywordLists == SeqsUpTo(RawTerms, MaxTerms)

\* numbers of listing elements find_elements may return for a results page
BatchSizes ==
  { 0, 1, MAX_SCRAPE_ROW - 1 } \cup (MAX_SCRAPE_ROW .. MAX_SCRAPE_ROW + MaxExtra)

\* positions in a page (1-based, document order) at which the environment
\* may make the handling of a listing element raise
FailRows == { 1, MAX_SCRAPE_ROW }

\* ------------------------------------------------------------ pure functions

\* str.strip(): drop leading and trailing whitespace
RECURSIVE lstrip(_)
lstrip(s) == IF s # <<>> /\ Head(s) = Space THEN lstrip(Tail(s)) ELSE s

RECURSIVE rstrip(_)
rstrip(s) == IF s # <<>> /\ s[Len(s)] = Space THEN rstrip(SubSeq(s, 1, Len(s) - 1)) ELSE s

strip(s) == rstrip(lstrip(s))

\* the name of the aggregate sheet, "All Keywords"
AllKeywords == << "A", "l", "l", Space, "K", "e", "y", "w", "o", "r", "d", "s" >>

\* the blank test applied to the keyword as given, before the strip
IsNonBlankRaw(raw) == raw # <<>>

\* `if keyword:` after the strip
IsNonBlank(raw) == strip(raw) # <<>>

\* `while self.processed_row_count < MAX_SCRAPE_ROW and has_more_rows`
LoopCondition(processed, more) == processed < MAX_SCRAPE_ROW /\ more

\* the cap test off by one
CapReachedLate(processed) == processed > MAX_SCRAPE_ROW

\* `if self.processed_row_count >= MAX_SCRAPE_ROW: break` in process_rows_data
CapReached(processed) == processed >= MAX_SCRAPE_ROW

\* has_more_rows never cleared after a batch
HasMoreAfterKept(n, more) == more

\* `if len(rows) < MAX_SCRAPE_ROW: has_more_rows = False`
HasMoreAfter(n, more) == IF n < MAX_SCRAPE_ROW THEN FALSE ELSE more

\* workbook.add_worksheet(name) raises DuplicateWorksheetName when the workbook
\* already holds a sheet of that name
AddWorksheetRaises(name, existing) == \E i \in 1 .. Len(existing) : existing[i] = name

\* `self.row_counts[keyword] = 1`
InitialRowCount == 1

\* the row index left where it was
NextRowCountStuck(c) == c

\* `self.row_counts[sheet_name] += 1`
NextRowCount(c) == c + 1

\* the test without its second operand: `if not sheet_name`
SheetUnknownNameOnly(name, counts) == name = <<>>

\* `if not sheet_name or sheet_name not in self.row_counts` in write_data_row
SheetUnknown(name, counts) == name = <<>> \/ name \notin DOMAIN counts

\* the cell table of a sheet with the record put at row index `r` (row 0 is the
\* header row, so the data row r is element r of the sequence)
PutRow(table, r, rec) ==
  [ k \in 1 .. (IF r > Len(table) THEN r ELSE Len(table)) |->
      IF k = r THEN rec ELSE IF k <= Len(table) THEN table[k] ELSE [kw |-> <<>>, page |-> 0, elem |-> 0] ]

\* ------------------------------------------------------------ optional texts

\* A text is a sequence of characters (or groups of characters).  What a lookup
\* or a dict access gives is a tagged text: None, a value, "missing" for an
\* element find_element does not find, or the name of the exception raised.
None == << "none", <<>> >>
Missing == << "missing", <<>> >>
ValueError == << "ValueError", <<>> >>
Val(t) == << "value", t >>

\* Python truthiness of an optional text: neither None nor ""
Truthy(x) == x[1] = "value" /\ x[2] # <<>>

EmptyDict == [ k \in {} |-> None ]

\* dict.get(key)
Get(d, key) == IF key \in DOMAIN d THEN d[key] ELSE None

\* ----------------------------------------------------------- eBayListingData

\* the members of the enum, in declaration order
eBayListingData ==
  << "IMAGE_URL", "IMAGE_PATH", "KEYWORD", "TITLE", "TITLE_HREF", "SELLER",
     "SELLER_SEARCH_LINK", "ITEM_ID", "PRICE", "SHIPPING_COST" >>

\* the columns numbered in the order in which write_data_row writes the fields
DataAttrInWriteOrder(m) ==
  CASE m = "IMAGE_PATH"    -> [ header |-> <<"Image">>,         column |-> {0} ]
    [] m = "KEYWORD"       -> [ header |-> <<"Keyword">>,       column |-> {1} ]
    [] m = "TITLE"         -> [ header |-> <<"Title">>,         column |-> {2} ]
    [] m = "PRICE"         -> [ header |-> <<"Listing Price">>, column |-> {3} ]
    [] m = "SELLER"        -> [ header |-> <<"Seller">>,        column |-> {4} ]
    [] m = "ITEM_ID"       -> [ header |-> <<"Item ID">>,       column |-> {5} ]
    [] m = "SHIPPING_COST" -> [ header |-> <<"Shipping Cost">>, column |-> {6} ]
    [] OTHER               -> [ header |-> <<>>, column |-> {} ]

\* the value of a member: DataAttr(header=..., column=...); DataAttr() declares
\* neither (no header: <<>>, no column: {})
DataAttr(m) ==
  CASE m = "IMAGE_PATH"    -> [ header |-> <<"Image">>,         column |-> {0} ]
    [] m = "KEYWORD"       -> [ header |-> <<"Keyword">>,       column |-> {1} ]
    [] m = "TITLE"         -> [ header |-> <<"Title">>,         column |-> {2} ]
    [] m = "SELLER"        -> [ header |-> <<"Seller">>,        column |-> {5} ]
    [] m = "ITEM_ID"       -> [ header |-> <<"Item ID">>,       column |-> {6} ]
    [] m = "PRICE"         -> [ header |-> <<"Listing Price">>, column |-> {3} ]
    [] m = "SHIPPING_COST" -> [ header |-> <<"Shipping Cost">>, column |-> {4} ]
    [] OTHER               -> [ header |-> <<>>, column |-> {} ]

Members == { eBayListingData[i] : i \in DOMAIN eBayListingData }

\* the members that declare a header
WithHeader == { m \in Members : DataAttr(m).header # <<>> }

\* Utils.get_enum_col(member): the declared column of the member
get_enum_col(m) == CHOOSE c \in DataAttr(m).column : TRUE

RECURSIVE HeadersByColumn(_)
HeadersByColumn(ms) ==
  IF ms = {}
  THEN <<>>
  ELSE LET first == CHOOSE m \in ms : \A o \in ms : get_enum_col(m) <= get_enum_col(o)
       IN  << DataAttr(first).header >> \o HeadersByColumn(ms \ { first })

\* Utils.get_enum_headers_row(eBayListingData): the declared headers in
\* ascending order of column index
get_enum_headers_row == HeadersByColumn(WithHeader)

\* a cell of a sheet: the member it was written for ("" for a header), how it
\* was written, its value and, for a hyperlink, its target
Cell(f, k, value, target) == [ field |-> f, kind |-> k, v |-> value, url |-> target ]

NoCells == [ p \in {} |-> Cell("", "blank", None, None) ]

\* write_row(0, first column, headers_row) one column too far to the right
add_headers_shifted(sheetCells) ==
  LET headers_row == get_enum_headers_row
      col == get_enum_col("KEYWORD")
  IN  [ p \in { <<0, col + k - 1>> : k \in DOMAIN headers_row } |->
          Cell("", "header", Val(headers_row[p[2] - col + 1]), None) ] @@ sheetCells

\* add_headers(sheet): sheet.write_row(0, get_enum_col(IMAGE_PATH), headers_row)
\* puts the k-th header of the list k-1 columns right of the image column
add_headers(sheetCells) ==
  LET headers_row == get_enum_headers_row
      col == get_enum_col("IMAGE_PATH")
  IN  [ p \in { <<0, col + k - 1>> : k \in DOMAIN headers_row } |->
          Cell("", "header", Val(headers_row[p[2] - col + 1]), None) ] @@ sheetCells

\* (data_key, url_key) pairs of write_data_row; "" stands for url_key None
fields_to_write ==
  << << "KEYWORD", "" >>,
     << "TITLE", "TITLE_HREF" >>,
     << "PRICE", "" >>,
     << "SELLER", "SELLER_SEARCH_LINK" >>,
     << "ITEM_ID", "" >>,
     << "SHIPPING_COST", "" >> >>

\* Utils.write_data(sheet, formats, row, col, data, data_key, url_key, ...): a
\* hyperlink showing the value when the companion link is present, else the
\* value as text (as currency for the price), an empty cell for an absent value
write_data(d, data_key, url_key, is_currency) ==
  LET value == Get(d, data_key)
      link == IF url_key = "" THEN None ELSE Get(d, url_key)
  IN  IF Truthy(link) THEN Cell(data_key, "url", value, link)
      ELSE IF value[1] # "value" THEN Cell(data_key, "blank", None, None)
      ELSE IF is_currency THEN Cell(data_key, "currency", value, None)
      ELSE Cell(data_key, "text", value, None)

\* the cells one call of write_data_row puts into row row_idx: the embedded
\* image when an image path is given and embed_image did not raise, and one
\* cell for each entry of fields_to_write at the column of its data_key
row_cells(d, row_idx, embedded) ==
  LET image_path == Get(d, "IMAGE_PATH")
      img == IF Truthy(image_path) /\ embedded
             THEN << row_idx, get_enum_col("IMAGE_PATH") >> :> Cell("IMAGE_PATH", "image", image_path, None)
             ELSE NoCells
      entry(c) == CHOOSE i \in DOMAIN fields_to_write : get_enum_col(fields_to_write[i][1]) = c
      flds == [ p \in { << row_idx, get_enum_col(fields_to_write[i][1]) >> : i \in DOMAIN fields_to_write } |->
                  write_data(d, fields_to_write[entry(p[2])][1], fields_to_write[entry(p[2])][2],
                             fields_to_write[entry(p[2])][1] = "PRICE") ]
  IN  flds @@ img

\* --------------------------------------------------------------- parse_data_row

Quote == "\""
EscapedQuote == "\\\""

\* Utils.escape_quotes(title): every quote of the text in its escaped form; None stays None
escape_quotes(x) ==
  IF x[1] # "value"
  THEN x
  ELSE Val([ i \in DOMAIN x[2] |-> IF x[2][i] = Quote THEN EscapedQuote ELSE x[2][i] ])

\* the part of a text before the first occurrence of ch: text.split(ch)[0]
Before(t, ch) ==
  IF \E i \in DOMAIN t : t[i] = ch
  THEN SubSeq(t, 1, (CHOOSE i \in DOMAIN t : t[i] = ch /\ \A j \in 1 .. i - 1 : t[j] # ch) - 1)
  ELSE t

\* the part of a text after the last occurrence of ch: text.split(ch)[-1]
AfterLast(t, ch) ==
  IF \E i \in DOMAIN t : t[i] = ch
  THEN SubSeq(t, (CHOOSE i \in DOMAIN t : t[i] = ch /\ \A j \in i + 1 .. Len(t) : t[j] # ch) + 1, Len(t))
  ELSE t

\* text.replace(ch, "")
Remove(t, ch) == SelectSeq(t, LAMBDA c : c # ch)

\* Utils.ebay_clean_product_url(link): the link without its tracking parameters
ebay_clean_product_url(t) == Before(t, "?")

\* Utils.build_seller_search_url(seller_id)
build_seller_search_url(seller_id) == << "sch", "/", "i.html", "?", "_ssn=" >> \o seller_id

\* extract_item_id_from_href(href): `if href: return href.split("/")[-1]`, else None
extract_item_id_from_href(href) ==
  IF Truthy(href) THEN Val(AfterLast(href[2], "/")) ELSE None

Digits == { "0", "1", "2", "3", "4", "5", "6", "7", "8", "9" }

\* the decimal notations float() accepts among the price texts: digits with at
\* most one point
IsFloat(s) ==
  /\ \E i \in DOMAIN s : s[i] \in Digits
  /\ \A i \in DOMAIN s : s[i] \in Digits \cup { "." }
  /\ Cardinality({ i \in DOMAIN s : s[i] = "." }) <= 1

\* transform_func of the price: float(text.replace(",", "").replace("$", "")),
\* the number kept in decimal notation; ValueError for any other text
to_float(text) ==
  LET s == Remove(Remove(text, ","), "$")
  IN  IF IsFloat(s) THEN Val(s) ELSE ValueError

\* transform_func=str
str(text) == Val(text)

\* transform_func(element.text), for the two transforms parse_data_row passes
call(transform_func, text) ==
  IF transform_func = "float" THEN to_float(text) ELSE str(text)

\* an except clause that names NoSuchElementException only
SafeExtractCatchesLookupOnly(exc) == exc = "NoSuchElementException"

\* `except (NoSuchElementException, ValueError)` of safe_extract_text
SafeExtractCatches(exc) == exc \in { "NoSuchElementException", "ValueError" }

\* safe_extract_text(selector, transform_func): transform_func(element.text);
\* None when find_element or the transform raised an exception the except
\* clause names; any other exception leaves the function
safe_extract_text(found, transform_func) ==
  LET result == IF found[1] = "missing"
                THEN << "NoSuchElementException", <<>> >>
                ELSE call(transform_func, found[2])
  IN  IF result[1] \in { "value", "none" } THEN result
      ELSE IF SafeExtractCatches(result[1]) THEN None
      ELSE result

\* safe_extract_attribute(selector, attribute_name): element.get_attribute(name)
\* (a text or None); None when find_element raised NoSuchElementException
safe_extract_attribute(found) == IF found[1] = "missing" THEN None ELSE found

\* `if link is not None:`
LinkFoundNotNone(link) == link[1] = "value"

\* `if link:` (line 241)
LinkFound(link) == Truthy(link)

\* the fallback selector looked up first
shipping_cost_fallback_first(primary, fallback) ==
  [ value     |-> safe_extract_text(fallback, "str"),
    consulted |-> << "span.s-item__freeXDays" >> ]

\* safe_extract_text("span.s-item__shipping") or safe_extract_text("span.s-item__freeXDays"):
\* `or` evaluates its right operand only when the left one is None or "", and
\* then gives the right operand whatever it is
shipping_cost(primary, fallback) ==
  IF Truthy(safe_extract_text(primary, "str"))
  THEN [ value     |-> safe_extract_text(primary, "str"),
         consulted |-> << "span.s-item__shipping" >> ]
  ELSE [ value     |-> safe_extract_text(fallback, "str"),
         consulted |-> << "span.s-item__shipping", "span.s-item__freeXDays" >> ]

\* parse_data_row(row) for a scraper of `keyword` and an element whose lookups
\* give el: the dict built (data), the shipping selectors looked up
\* (consulted), and whether an exception left the method (raised)
parse_data_row(keyword, el) ==
  LET title == safe_extract_text(el.title, "str")
      link == safe_extract_attribute(el.href)
      cleaned_url == Val(ebay_clean_product_url(link[2]))
      seller_info == safe_extract_text(el.seller, "str")
      seller_id == strip(Before(seller_info[2], "("))
      image_url == safe_extract_attribute(el.img)
      price == safe_extract_text(el.price, "float")
      shipping == shipping_cost(el.shipping, el.freeXDays)
      d_title == ("KEYWORD" :> Val(keyword)) @@ ("TITLE" :> escape_quotes(title))
      d_link == IF LinkFound(link)
                THEN ("TITLE_HREF" :> cleaned_url) @@ ("ITEM_ID" :> extract_item_id_from_href(cleaned_url))
                ELSE EmptyDict
      d_seller == IF Truthy(seller_info)
                  THEN ("SELLER" :> Val(seller_id)) @@
                       (IF Len(seller_id) > 0
                        THEN "SELLER_SEARCH_LINK" :> Val(build_seller_search_url(seller_id))
                        ELSE EmptyDict)
                  ELSE EmptyDict
      d_rest == ("IMAGE_URL" :> image_url) @@ ("PRICE" :> price) @@ ("SHIPPING_COST" :> shipping.value)
  IN  [ data      |-> d_title @@ d_link @@ d_seller @@ d_rest,
        consulted |-> shipping.consulted,
        raised    |-> \E r \in { title, seller_info, price, shipping.value } :
                       r[1] \notin { "value", "none" } ]

NoData == [ data |-> EmptyDict, consulted |-> <<>>, raised |-> FALSE ]

\* ----------------------------------------------------------- listing elements

\* what the lookups of parse_data_row give on a listing element
TitleTexts == { Missing, Val(<< "lamp", Quote >>) }
Hrefs ==
  { Missing, None, Val(<<>>),
    Val(<< "https:", "/", "/", "www.ebay.com", "/", "itm", "/", "123", "?", "hash=x" >>) }
SellerTexts ==
  { Missing, Val(<<>>), Val(<< "bob", Space, "(", "12", ")" >>), Val(<< "(", "12", ")" >>) }
ImageSrcs == { Missing, Val(<< "https:", "/", "/", "i.ebayimg.com", "/", "1.jpg" >>) }
PriceTexts ==
  { Missing, Val(<< "$", "1", ",", "2", "9", "9", ".", "0", "0" >>),
    Val(<< "$", "1", "0", Space, "to", Space, "$", "2", "0" >>) }
ShippingTexts == { Missing, Val(<<>>), Val(<< "+$5.00 shipping" >>) }
FreeXDaysTexts == { Missing, Val(<<>>), Val(<< "Free 3 day shipping" >>) }

Elements ==
  [ title : TitleTexts, href : Hrefs, seller : SellerTexts, img : ImageSrcs,
    price : PriceTexts, shipping : ShippingTexts, freeXDays : FreeXDaysTexts ]

\* an element all of whose lookups succeed
Plain ==
  [ title     |-> Val(<< "lamp", Quote >>),
    href      |-> Val(<< "https:", "/", "/", "www.ebay.com", "/", "itm", "/", "123", "?", "hash=x" >>),
    seller    |-> Val(<< "bob", Space, "(", "12", ")" >>),
    img       |-> Val(<< "https:", "/", "/", "i.ebayimg.com", "/", "1.jpg" >>),
    price     |-> Val(<< "$", "1", ",", "2", "9", "9", ".", "0", "0" >>),
    shipping  |-> Val(<< "+$5.00 shipping" >>),
    freeXDays |-> Missing ]

\* the batches followed cell by cell: one element of any content, then
\* elements all of whose lookups succeed
Pages ==
  { << e >> \o [ i \in 1 .. k |-> Plain ] : e \in Elements, k \in 0 .. MaxPage - 1 }

\* ------------------------------------------------------------------- state

VARIABLES
  keywords,             \* the argument of process_keywords
  pc,                   \* position of the run
  idx,                  \* 1-based position of the for loop in keywords
  driver,               \* "unbound" | "none" | "open" | "closed"
  imageFolder,          \* "absent" | "present" | "deleted"
  screenshotFolder,     \* "absent" | "present"
  workbook,             \* "none" | "open" | "saved"
  sheets,               \* names of the worksheets, in creation order
  row_counts,           \* MyEbayListingExcel.row_counts
  cells,                \* per sheet, the data rows written (row index -> record)
  processed_row_count,  \* KeywordScraper.processed_row_count
  has_more_rows,        \* local of scrape_keyword_data
  screenshot_taken,     \* local of scrape_keyword_data
  rows,                 \* len(rows) of the batch being handled
  rowpos,               \* position of the for loop of process_rows_data in rows
  fetches,              \* history: calls of fetch_data_rows for the current term
  smallBatch,           \* history: the current term fetched a batch < MAX_SCRAPE_ROW
  timedOut,             \* history: the first fetch of the current term failed
  failed,               \* history: scrape_keyword_data caught an exception for the current term
  scraped,              \* history: term positions whose scrape_keyword_data was called
  ctorFailed,           \* history: term positions whose KeywordScraper(...) raised
  pageSize,             \* history: elements find_elements matched in the last fetch of the run
  shots,                \* history: <<attempts, successes, exceptions>> of the screenshot, current term
  written,              \* history: sheets whose write_data_row completed in the last step
  saveState,            \* history of save_workbook: "not_called" | "running" | "returned" | "raised"
  closeOk,              \* history: workbook.close() calls that succeeded
  pendingAck,           \* history: a close attempt failed and input() has not returned yet
  closeFailed,          \* history: some workbook.close() call raised
  page,                 \* content of the listing elements of the batch (cell-level view)
  getName,              \* what get_name() returns for the keyword sheet (cell-level view)
  parsed,               \* what parse_data_row gave for the element being handled (cell-level view)
  grid                  \* per sheet, the cells written: <<row, column>> -> cell

vars == << keywords, pc, idx, driver, imageFolder, screenshotFolder, workbook, sheets,
           row_counts, cells, processed_row_count, has_more_rows, screenshot_taken,
           rows, rowpos, fetches, smallBatch, timedOut, failed, scraped, ctorFailed,
           pageSize, shots, written, saveState, closeOk, pendingAck, closeFailed,
           page, getName, parsed, grid >>

bookVars == << workbook, sheets, row_counts, cells >>
scraperVars == << processed_row_count, has_more_rows, screenshot_taken, rows, rowpos >>
termHist == << fetches, smallBatch, timedOut, failed, pageSize, shots >>
histVars == << termHist, scraped, ctorFailed >>
saveVars == << saveState, closeOk, pendingAck, closeFailed >>
envVars == << driver, imageFolder, screenshotFolder >>
elemVars == << page, getName, parsed, grid >>

NoSheets == [ n \in {} |-> 0 ]

Init ==
  /\ keywords \in KeywordLists
  /\ pc = "start"
  /\ idx = 1
  /\ driver = "unbound"
  /\ imageFolder = "absent"
  /\ screenshotFolder = "absent"
  /\ workbook = "none"
  /\ sheets = <<>>
  /\ row_counts = NoSheets
  /\ cells = NoSheets
  /\ processed_row_count = 0
  /\ has_more_rows = FALSE
  /\ screenshot_taken = FALSE
  /\ rows = 0
  /\ rowpos = 1
  /\ fetches = 0
  /\ smallBatch = FALSE
  /\ timedOut = FALSE
  /\ failed = FALSE
  /\ scraped = {}
  /\ ctorFailed = {}
  /\ pageSize = 0
  /\ shots = <<0, 0, 0>>
  /\ written = {}
  /\ saveState = "not_called"
  /\ closeOk = 0
  /\ pendingAck = FALSE
  /\ closeFailed = FALSE
  /\ page = <<>>
  /\ getName = "own"
  /\ parsed = NoData
  /\ grid = NoSheets

\* ------------------------------------------------ MyEbayListingExcel methods

\* new_worksheet(keyword), once add_worksheet has returned: the sheet is added
\* (headers in row 0) and `self.row_counts[keyword] = 1`
new_worksheet(name, sh, rc, ce) ==
  [ sheets     |-> Append(sh, name),
    row_counts |-> (name :> InitialRowCount) @@ rc,
    cells      |-> (name :> <<>>) @@ ce ]

\* write_data_row(sheet, data), when no call it makes raises
write_data_row(name, rec, rc, ce) ==
  IF SheetUnknown(name, rc)
  THEN [ row_counts |-> rc, cells |-> ce, done |-> {} ]
  ELSE [ row_counts |-> [ rc EXCEPT ![name] = NextRowCount(@) ],
         cells      |-> [ ce EXCEPT ![name] = PutRow(@, rc[name], rec) ],
         done       |-> { name } ]

\* ------------------------------------------------------- exception handlers

\* `except Exception` of process_keywords (line 318): log, then the finally block
RunExcept == "finally"

\* an exception of KeywordScraper(...) in the for loop of process_keywords is
\* inside no try of the loop: it reaches the except of process_keywords
ConstructorExcept == RunExcept

\* outer `except Exception` of scrape_keyword_data (line 110): log, return
ScrapeOuterExcept == "loop"

\* the while loop without its own try: the exception leaves scrape_keyword_data
ScrapeInnerRaise == RunExcept

\* inner `except Exception` of the while loop (line 105): log, break, return
ScrapeInnerExcept == "loop"

\* only a permission error asks the user; any other error is logged and
\* save_workbook returns
AfterCloseFailureGiveUp(err) == IF err = "EACCES" THEN "ack" ELSE "finally"

\* both except branches of save_workbook end in input(...) and loop again
AfterCloseFailure(err) == "ack"

\* ------------------------------------------------------------ process_keywords

\* `if keywords is None`: never true of a list
NoKeywordsIsNone(ks) == FALSE

\* `if not keywords: ... return`
NoKeywords(ks) == ks = <<>>

CheckKeywords ==
  /\ pc = "start"
  /\ pc' = IF NoKeywords(keywords) THEN "returned" ELSE "mkdirs"
  /\ written' = {}
  /\ UNCHANGED << elemVars, keywords, idx, envVars, bookVars, scraperVars, histVars, saveVars >>

\* the two Utils.create_subfolder calls
CreateSubfolders ==
  /\ pc = "mkdirs"
  /\ imageFolder' = "present"
  /\ screenshotFolder' = "present"
  /\ pc' = "init_driver"
  /\ written' = {}
  /\ UNCHANGED << elemVars, keywords, idx, driver, bookVars, scraperVars, histVars, saveVars >>

\* driver = Driver.initialize_driver(headless=True)
InitializeDriver ==
  /\ pc = "init_driver"
  /\ \E outcome \in { "ok", "none", "raise" } :
       /\ driver' = CASE outcome = "ok"    -> "open"
                      [] outcome = "none"  -> "none"
                      [] outcome = "raise" -> "unbound"
       /\ pc' = IF outcome = "raise" THEN RunExcept ELSE "new_workbook"
  /\ written' = {}
  /\ UNCHANGED << elemVars, keywords, idx, imageFolder, screenshotFolder, bookVars, scraperVars,
                  histVars, saveVars >>

\* workbook = MyEbayListingExcel("eBay Listings", output_dir)
NewWorkbook ==
  /\ pc = "new_workbook"
  /\ \E outcome \in { "ok", "raise" } :
       IF outcome = "ok"
       THEN LET b == new_worksheet(AllKeywords, <<>>, NoSheets, NoSheets)
            IN  /\ workbook' = "open"
                /\ sheets' = b.sheets
                /\ row_counts' = b.row_counts
                /\ cells' = b.cells
                /\ pc' = "loop"
       ELSE /\ pc' = RunExcept
            /\ UNCHANGED bookVars
  /\ written' = {}
  /\ UNCHANGED << elemVars, keywords, idx, envVars, scraperVars, histVars, saveVars >>

\* for keyword in keywords: a blank keyword is logged and skipped
SkipBlank ==
  /\ pc = "loop"
  /\ idx <= Len(keywords)
  /\ ~IsNonBlank(keywords[idx])
  /\ idx' = idx + 1
  /\ written' = {}
  /\ UNCHANGED << elemVars, keywords, pc, envVars, bookVars, scraperVars, histVars, saveVars >>

\* scraper = KeywordScraper(...): new_worksheet(keyword), processed_row_count = 0,
\* then scraper.scrape_keyword_data() is called
NewScraper ==
  /\ pc = "loop"
  /\ idx <= Len(keywords)
  /\ IsNonBlank(keywords[idx])
  /\ LET keyword == strip(keywords[idx])
     IN  IF AddWorksheetRaises(keyword, sheets)
         THEN /\ pc' = ConstructorExcept
              /\ ctorFailed' = ctorFailed \cup { idx }
              /\ UNCHANGED << sheets, row_counts, cells, processed_row_count, scraped, termHist >>
         ELSE LET b == new_worksheet(keyword, sheets, row_counts, cells)
              IN  /\ sheets' = b.sheets
                  /\ row_counts' = b.row_counts
                  /\ cells' = b.cells
                  /\ processed_row_count' = 0
                  /\ scraped' = scraped \cup { idx }
                  /\ fetches' = 0
                  /\ smallBatch' = FALSE
                  /\ timedOut' = FALSE
                  /\ failed' = FALSE
                  /\ pageSize' = pageSize
                  /\ shots' = <<0, 0, 0>>
                  /\ pc' = "navigate"
                  /\ UNCHANGED ctorFailed
  /\ written' = {}
  /\ UNCHANGED << elemVars, keywords, idx, envVars, workbook, has_more_rows, screenshot_taken, rows,
                  rowpos, saveVars >>

\* the for loop is over: workbook.save_workbook() is called
SaveCall ==
  /\ pc = "loop"
  /\ idx > Len(keywords)
  /\ pc' = "save"
  /\ saveState' = "running"
  /\ written' = {}
  /\ UNCHANGED << elemVars, keywords, idx, envVars, bookVars, scraperVars, histVars, closeOk, pendingAck, closeFailed >>

\* ------------------------------------------------------------ KeywordScraper

\* where scrape_keyword_data goes after a batch of n elements was fetched and the
\* screenshot step is over: `if not rows: break`, else process_rows_data(rows)
AfterFetch(n) == IF n = 0 THEN "loop" ELSE "rows"

\* driver.get(url); Driver.check_ebay_captcha(driver, url); the locals are set and
\* the while condition is evaluated for the first time
Navigate ==
  /\ pc = "navigate"
  /\ \E outcome \in { "ok", "get_raises", "captcha_raises" } :
       /\ outcome = "ok" => driver = "open"
       /\ IF outcome = "ok"
          THEN /\ has_more_rows' = TRUE
               /\ screenshot_taken' = FALSE
               /\ pc' = IF LoopCondition(processed_row_count, TRUE) THEN "fetch" ELSE "loop"
               /\ UNCHANGED failed
          ELSE /\ pc' = ScrapeOuterExcept
               /\ failed' = TRUE
               /\ UNCHANGED << has_more_rows, screenshot_taken >>
  /\ idx' = IF pc' = "loop" THEN idx + 1 ELSE idx
  /\ written' = {}
  /\ UNCHANGED << elemVars, keywords, envVars, bookVars, processed_row_count, rows, rowpos, fetches,
                  smallBatch, timedOut, pageSize, scraped, ctorFailed, shots, saveVars >>

\* the batch cut to its first MAX_SCRAPE_ROW elements: rows[:MAX_SCRAPE_ROW]
fetch_data_rows_capped(outcome, n) ==
  IF outcome = "raises" THEN 0 ELSE IF n <= MAX_SCRAPE_ROW THEN n ELSE MAX_SCRAPE_ROW

\* the except branch returning what the page holds instead of []
fetch_data_rows_lenient(outcome, n) == n

\* fetch_data_rows(): the n elements find_elements returned, or [] when the wait
\* for the results container (or find_elements) raised
fetch_data_rows(outcome, n) == IF outcome = "raises" THEN 0 ELSE n

\* the screenshot taken only of a page that returned listing elements
ScreenshotDueOnRows(taken, n) == ~taken /\ n > 0

\* `if not screenshot_taken:` (line 87), evaluated before `if not rows`
ScreenshotDue(taken, n) == ~taken

\* rows = self.fetch_data_rows()
FetchDataRows ==
  /\ pc = "fetch"
  /\ \E outcome \in { "found", "raises" } :
     \E n \in BatchSizes :
       /\ rows' = fetch_data_rows(outcome, n)
       /\ pageSize' = IF outcome = "found" THEN n ELSE 0
       /\ rowpos' = 1
       /\ timedOut' = IF fetches = 0 THEN outcome = "raises" ELSE timedOut
       /\ smallBatch' = (smallBatch \/ rows' < MAX_SCRAPE_ROW)
  /\ fetches' = fetches + 1
  /\ pc' = IF ScreenshotDue(screenshot_taken, rows') THEN "screenshot" ELSE AfterFetch(rows')
  /\ idx' = IF pc' = "loop" THEN idx + 1 ELSE idx
  /\ written' = {}
  /\ UNCHANGED << elemVars, keywords, envVars, bookVars, processed_row_count, has_more_rows,
                  screenshot_taken, failed, scraped, ctorFailed, shots, saveVars >>

\* `if not screenshot_taken:` sleep, screenshot_taken = Utils.take_screenshot(...)
TakeScreenshot ==
  /\ pc = "screenshot"
  /\ \E outcome \in { "true", "false", "raises" } :
       /\ screenshot_taken' = (outcome = "true")
       /\ shots' = << shots[1] + 1,
                      shots[2] + (IF outcome = "true" THEN 1 ELSE 0),
                      shots[3] + (IF outcome = "raises" THEN 1 ELSE 0) >>
       /\ IF outcome = "raises"
          THEN /\ pc' = ScrapeInnerExcept
               /\ failed' = TRUE
          ELSE /\ pc' = AfterFetch(rows)
               /\ UNCHANGED failed
  /\ idx' = IF pc' = "loop" THEN idx + 1 ELSE idx
  /\ written' = {}
  /\ UNCHANGED << elemVars, keywords, envVars, bookVars, processed_row_count, has_more_rows, rows,
                  rowpos, fetches, smallBatch, timedOut, pageSize, scraped, ctorFailed, saveVars >>

\* one iteration of the for loop of process_rows_data under the cap: parse the
\* element, download its image, write the record to the keyword sheet, count it,
\* write it to the aggregate sheet
ProcessRow ==
  /\ pc = "rows"
  /\ rowpos <= rows
  /\ ~CapReached(processed_row_count)
  /\ \E outcome \in { "ok", "parse_raises", "write_keyword_raises", "write_total_raises" } :
       /\ outcome # "ok" => rowpos \in FailRows
       /\ LET keyword == strip(keywords[idx])
              data == [ kw |-> keyword, page |-> fetches, elem |-> rowpos ]
              w1 == write_data_row(keyword, data, row_counts, cells)
              w2 == write_data_row(AllKeywords, data, w1.row_counts, w1.cells)
          IN  CASE outcome = "ok" ->
                     /\ row_counts' = w2.row_counts
                     /\ cells' = w2.cells
                     /\ written' = w1.done \cup w2.done
                     /\ processed_row_count' = processed_row_count + 1
                     /\ rowpos' = rowpos + 1
                     /\ UNCHANGED << pc, failed >>
                [] outcome = "write_total_raises" ->
                     /\ row_counts' = w1.row_counts
                     /\ cells' = w1.cells
                     /\ written' = w1.done
                     /\ processed_row_count' = processed_row_count + 1
                     /\ pc' = ScrapeInnerExcept
                     /\ failed' = TRUE
                     /\ UNCHANGED rowpos
                [] OTHER ->
                     /\ pc' = ScrapeInnerExcept
                     /\ failed' = TRUE
                     /\ written' = {}
                     /\ UNCHANGED << row_counts, cells, processed_row_count, rowpos >>
  /\ idx' = IF pc' = "loop" THEN idx + 1 ELSE idx
  /\ UNCHANGED << elemVars, keywords, envVars, workbook, sheets, has_more_rows, screenshot_taken, rows,
                  fetches, smallBatch, timedOut, pageSize, scraped, ctorFailed, shots, saveVars >>

\* process_rows_data returns (rows exhausted, or the cap check breaks the loop);
\* `if len(rows) < MAX_SCRAPE_ROW: has_more_rows = False`; the while condition
EndRows ==
  /\ pc = "rows"
  /\ rowpos > rows \/ CapReached(processed_row_count)
  /\ has_more_rows' = HasMoreAfter(rows, has_more_rows)
  /\ pc' = IF LoopCondition(processed_row_count, has_more_rows') THEN "fetch" ELSE "loop"
  /\ idx' = IF pc' = "loop" THEN idx + 1 ELSE idx
  /\ written' = {}
  /\ UNCHANGED << elemVars, keywords, envVars, bookVars, processed_row_count, screenshot_taken, rows,
                  rowpos, histVars, saveVars >>

\* ------------------------------------------------------------- save_workbook

\* the autofit / set_column loop over the worksheets
PrepareSave ==
  /\ pc = "save"
  /\ \E outcome \in { "ok", "raise" } :
       /\ pc' = IF outcome = "ok" THEN "close" ELSE RunExcept
       /\ saveState' = IF outcome = "ok" THEN saveState ELSE "raised"
  /\ written' = {}
  /\ UNCHANGED << elemVars, keywords, idx, envVars, bookVars, scraperVars, histVars, closeOk, pendingAck, closeFailed >>

\* self.workbook.close() succeeds: break, save_workbook returns, and
\* process_keywords logs completion and reaches its finally block
CloseSucceeds ==
  /\ pc = "close"
  /\ workbook' = "saved"
  /\ closeOk' = closeOk + 1
  /\ saveState' = "returned"
  /\ pc' = "finally"
  /\ written' = {}
  /\ UNCHANGED << elemVars, keywords, idx, envVars, sheets, row_counts, cells, scraperVars, histVars,
                  pendingAck, closeFailed >>

\* self.workbook.close() raises: EACCES, another OSError, or another Exception
CloseFails ==
  /\ pc = "close"
  /\ \E err \in { "EACCES", "OSError", "Exception" } :
       pc' = AfterCloseFailure(err)
  /\ pendingAck' = TRUE
  /\ closeFailed' = TRUE
  /\ saveState' = IF pc' \in { "ack", "close" } THEN saveState ELSE "returned"
  /\ written' = {}
  /\ UNCHANGED << elemVars, keywords, idx, envVars, bookVars, scraperVars, histVars, closeOk >>

\* input(...) returns: the user pressed Enter, the while True loop tries again
Acknowledge ==
  /\ pc = "ack"
  /\ pendingAck' = FALSE
  /\ pc' = "close"
  /\ written' = {}
  /\ UNCHANGED << elemVars, keywords, idx, envVars, bookVars, scraperVars, histVars, saveState, closeOk, closeFailed >>

\* ------------------------------------------------------------------ finally

\* `if driver: Driver.close_driver(driver)` then Utils.delete_folder(images).
\* When initialize_driver raised, `driver` is an unbound local: evaluating it
\* raises UnboundLocalError, which leaves process_keywords.
Finally ==
  /\ pc = "finally"
  /\ IF driver = "unbound"
     THEN /\ pc' = "raised"
          /\ UNCHANGED << driver, imageFolder >>
     ELSE /\ driver' = IF driver = "open" THEN "closed" ELSE driver
          /\ imageFolder' = "deleted"
          /\ pc' = "returned"
  /\ written' = {}
  /\ UNCHANGED << elemVars, keywords, idx, screenshotFolder, bookVars, scraperVars, histVars, saveVars >>

Next ==
  \/ CheckKeywords
  \/ CreateSubfolders
  \/ InitializeDriver
  \/ NewWorkbook
  \/ SkipBlank
  \/ NewScraper
  \/ SaveCall
  \/ Navigate
  \/ FetchDataRows
  \/ TakeScreenshot
  \/ ProcessRow
  \/ EndRows
  \/ PrepareSave
  \/ CloseSucceeds
  \/ CloseFails
  \/ Acknowledge
  \/ Finally

Spec == Init /\ [][Next]_vars

\* the user always acknowledges and workbook.close() eventually succeeds
FairSpec == Spec /\ WF_vars(Acknowledge) /\ SF_vars(CloseSucceeds)

\* ------------------------------------------------- one batch, cell by cell

\* The run of one term over one fetched batch, with the content of the listing
\* elements, the records parse_data_row builds and the cells write_data_row
\* writes.  No call raises here except where a lookup or a transform fails
\* inside parse_data_row; exceptions of the other calls are followed in Spec.

\* sheet.get_name() of the handle kept in self.keyword_worksheet
SheetName(kind, keyword) ==
  CASE kind = "own"     -> keyword
    [] kind = "empty"   -> <<>>
    [] kind = "foreign" -> << "z" >>

\* write_data_row(sheet, data) on the cells: nothing for an unknown sheet, else
\* the cells of row `self.row_counts.get(sheet_name, 0)`
write_cells(name, d, rc, g, embedded) ==
  IF SheetUnknown(name, rc)
  THEN g
  ELSE LET row_idx == IF name \in DOMAIN rc THEN rc[name] ELSE 0
           before == IF name \in DOMAIN g THEN g[name] ELSE NoCells
       IN  (name :> (row_cells(d, row_idx, embedded) @@ before)) @@ g

ElemInitOf(kinds, pages) ==
  /\ keywords = << << Space, "a", Space >> >>
  /\ pc = "elem_workbook"
  /\ idx = 1
  /\ driver = "open"
  /\ imageFolder = "present"
  /\ screenshotFolder = "present"
  /\ workbook = "none"
  /\ sheets = <<>>
  /\ row_counts = NoSheets
  /\ cells = NoSheets
  /\ processed_row_count = 0
  /\ has_more_rows = FALSE
  /\ screenshot_taken = FALSE
  /\ rows = 0
  /\ rowpos = 1
  /\ fetches = 0
  /\ smallBatch = FALSE
  /\ timedOut = FALSE
  /\ failed = FALSE
  /\ scraped = {}
  /\ ctorFailed = {}
  /\ pageSize = 0
  /\ shots = <<0, 0, 0>>
  /\ written = {}
  /\ saveState = "not_called"
  /\ closeOk = 0
  /\ pendingAck = FALSE
  /\ closeFailed = FALSE
  /\ page \in pages
  /\ getName \in kinds
  /\ parsed = NoData
  /\ grid = NoSheets

\* the sheets are handed out by new_worksheet, the results page holds any batch
ElemInit == ElemInitOf({ "own" }, Pages)

\* write_data_row is given any handle; every lookup on every element succeeds or
\* the title, link, price and image lookups of the first element fail
WriterInit ==
  ElemInitOf({ "own", "empty", "foreign" },
             { p \in Pages : /\ p[1].seller = Plain.seller
                             /\ p[1].shipping = Plain.shipping
                             /\ p[1].freeXDays = Plain.freeXDays })

elemFrame ==
  << keywords, idx, envVars, has_more_rows, screenshot_taken, smallBatch, timedOut, failed,
     scraped, ctorFailed, shots, saveVars, page, getName >>

\* MyEbayListingExcel(...): total_worksheet = new_worksheet("All Keywords")
ElemNewWorkbook ==
  /\ pc = "elem_workbook"
  /\ LET made == new_worksheet(AllKeywords, sheets, row_counts, cells)
     IN  /\ sheets' = made.sheets
         /\ row_counts' = made.row_counts
         /\ cells' = made.cells
         /\ grid' = (AllKeywords :> add_headers(NoCells)) @@ grid
  /\ workbook' = "open"
  /\ pc' = "elem_scraper"
  /\ written' = {}
  /\ UNCHANGED << elemFrame, processed_row_count, rows, rowpos, fetches, pageSize, parsed >>

\* KeywordScraper(...): keyword_worksheet = new_worksheet(keyword)
ElemNewScraper ==
  /\ pc = "elem_scraper"
  /\ LET keyword == strip(keywords[idx])
         made == new_worksheet(keyword, sheets, row_counts, cells)
     IN  /\ sheets' = made.sheets
         /\ row_counts' = made.row_counts
         /\ cells' = made.cells
         /\ grid' = (keyword :> add_headers(NoCells)) @@ grid
  /\ processed_row_count' = 0
  /\ pc' = "elem_fetch"
  /\ written' = {}
  /\ UNCHANGED << elemFrame, workbook, rows, rowpos, fetches, pageSize, parsed >>

\* scrape_keyword_data up to process_rows_data(rows): the batch is fetched
ElemFetch ==
  /\ pc = "elem_fetch"
  /\ rows' = fetch_data_rows("found", Len(page))
  /\ pageSize' = Len(page)
  /\ rowpos' = 1
  /\ fetches' = fetches + 1
  /\ pc' = "elem_rows"
  /\ written' = {}
  /\ UNCHANGED << elemFrame, bookVars, processed_row_count, parsed, grid >>

\* data = self.parse_data_row(row); image_path = Utils.download_image(...) if
\* image_url else None; data[IMAGE_PATH] = image_path.  An exception leaving
\* parse_data_row reaches the except of the while loop.
ElemParse ==
  /\ pc = "elem_rows"
  /\ rowpos <= rows
  /\ ~CapReached(processed_row_count)
  /\ LET got == parse_data_row(strip(keywords[idx]), page[rowpos])
     IN  \E image_path \in { None, Val(<< "images", "/", "eBay Listing" >>) } :
           /\ ~Truthy(Get(got.data, "IMAGE_URL")) => image_path = None
           /\ ~got.raised => parsed' = [ got EXCEPT !.data = ("IMAGE_PATH" :> image_path) @@ @ ]
           /\ got.raised => parsed' = NoData
           /\ pc' = IF got.raised THEN "elem_done" ELSE "elem_write_keyword"
  /\ written' = {}
  /\ UNCHANGED << elemFrame, bookVars, processed_row_count, rows, rowpos, fetches, pageSize, grid >>

\* self.workbook.write_data_row(self.keyword_worksheet, data); self.processed_row_count += 1
ElemWriteKeyword ==
  /\ pc = "elem_write_keyword"
  /\ LET name == SheetName(getName, strip(keywords[idx]))
         rec == [ kw |-> strip(keywords[idx]), page |-> fetches, elem |-> rowpos ]
         w == write_data_row(name, rec, row_counts, cells)
     IN  \E embedded \in BOOLEAN :
           /\ ~Truthy(Get(parsed.data, "IMAGE_PATH")) => embedded
           /\ row_counts' = w.row_counts
           /\ cells' = w.cells
           /\ written' = w.done
           /\ grid' = write_cells(name, parsed.data, row_counts, grid, embedded)
  /\ processed_row_count' = processed_row_count + 1
  /\ pc' = "elem_write_total"
  /\ UNCHANGED << elemFrame, workbook, sheets, rows, rowpos, fetches, pageSize, parsed >>

\* self.workbook.write_data_row(self.total_worksheet, data); next element
ElemWriteTotal ==
  /\ pc = "elem_write_total"
  /\ LET rec == [ kw |-> strip(keywords[idx]), page |-> fetches, elem |-> rowpos ]
         w == write_data_row(AllKeywords, rec, row_counts, cells)
     IN  \E embedded \in BOOLEAN :
           /\ ~Truthy(Get(parsed.data, "IMAGE_PATH")) => embedded
           /\ row_counts' = w.row_counts
           /\ cells' = w.cells
           /\ written' = w.done
           /\ grid' = write_cells(AllKeywords, parsed.data, row_counts, grid, embedded)
  /\ rowpos' = rowpos + 1
  /\ pc' = "elem_rows"
  /\ UNCHANGED << elemFrame, workbook, sheets, processed_row_count, rows, fetches, pageSize, parsed >>

\* process_rows_data returns: the batch is exhausted or the cap check breaks
ElemEndRows ==
  /\ pc = "elem_rows"
  /\ rowpos > rows \/ CapReached(processed_row_count)
  /\ pc' = "elem_done"
  /\ written' = {}
  /\ UNCHANGED << elemFrame, bookVars, processed_row_count, rows, rowpos, fetches, pageSize,
                  parsed, grid >>

ElemNext ==
  \/ ElemNewWorkbook
  \/ ElemNewScraper
  \/ ElemFetch
  \/ ElemParse
  \/ ElemWriteKeyword
  \/ ElemWriteTotal
  \/ ElemEndRows

\* one term, one batch, every content of a listing element
ElemSpec == ElemInit /\ [][ElemNext]_vars

\* the same steps, write_data_row called with known and unknown sheets
WriterSpec == WriterInit /\ [][ElemNext]_vars

\* ----------------------------------------------------------------- properties

ScraperPcs == { "navigate", "fetch", "screenshot", "rows" }
Ended == pc \in { "returned", "raised" }

\* the sheets created for terms, i.e. all but the aggregate sheet
TermSheetIdx == 2 .. Len(sheets)

DataRows(name) == Len(cells[name])

\* number of rows of the aggregate sheet that carry the keyword `name`
AggRowsFrom(name) ==
  Cardinality({ k \in 1 .. Len(cells[AllKeywords]) : cells[AllKeywords][k].kw = name })

\* scrape_keyword_data of the term that owns sheet number i has returned
TermReturned(i) == i < Len(sheets) \/ pc \notin ScraperPcs

CurrentSheet == sheets[Len(sheets)]

IsPrefix(a, b) == Len(a) <= Len(b) /\ SubSeq(b, 1, Len(a)) = a

\* C1: a term never has more than MAX_SCRAPE_ROW records processed or written to
\* its sheet, and once a fetched batch had fewer than MAX_SCRAPE_ROW elements
\* fetch_data_rows is not called again for the term.
C1_CapAndStop ==
  /\ processed_row_count <= MAX_SCRAPE_ROW
  /\ \A i \in TermSheetIdx :
       /\ DataRows(sheets[i]) <= MAX_SCRAPE_ROW
       /\ row_counts[sheets[i]] - 1 <= MAX_SCRAPE_ROW
  /\ smallBatch => pc # "fetch"

\* a page of more than MAX_SCRAPE_ROW elements was cut at the cap for one term,
\* and the next term ended after a batch of MAX_SCRAPE_ROW - 1 elements
C1_Witness ==
  /\ Len(sheets) = 3
  /\ DataRows(sheets[2]) = MAX_SCRAPE_ROW
  /\ rows = MAX_SCRAPE_ROW - 1
  /\ smallBatch
  /\ processed_row_count = MAX_SCRAPE_ROW - 1
  /\ pc = "loop"

\* C2: once scrape_keyword_data has returned for a term, its sheet has as many
\* data rows as the aggregate sheet received from it.
C2_Mirrored ==
  \A i \in TermSheetIdx :
    TermReturned(i) => DataRows(sheets[i]) = AggRowsFrom(sheets[i])

\* C3: with the workbook created, a failure while handling one term keeps no
\* later non-blank term from being scraped, and save_workbook is called after the
\* last term.
C3_AllTermsAttempted ==
  (Ended /\ workbook # "none") =>
    /\ saveState # "not_called"
    /\ \A i \in 1 .. Len(keywords) :
         IsNonBlank(keywords[i]) => i \in scraped \cup ctorFailed

\* C4: a run that got past the empty-list check ends with the driver, if created,
\* closed and the image folder deleted.
C4_CleanedUp ==
  (Ended /\ keywords # <<>>) => (driver # "open" /\ imageFolder = "deleted")

AllBlank(ks) == \A i \in 1 .. Len(ks) : strip(ks[i]) = <<>>

NoArtifacts ==
  /\ imageFolder = "absent"
  /\ screenshotFolder = "absent"
  /\ driver = "unbound"
  /\ workbook = "none"
  /\ closeOk = 0

\* C5 as stated: for an empty or all-blank term list no output artifact is ever
\* created.
C5_NoArtifactWhenAllBlank ==
  AllBlank(keywords) => NoArtifacts

\* C5 amended: for an empty term list no output artifact is ever created; a
\* non-empty list is never returned early, also when all its terms are blank:
\* the folders are created, and the report saved for an all-blank list holds the
\* aggregate sheet alone, without data rows.
C5_NoArtifactWhenEmpty ==
  /\ keywords = <<>> => (NoArtifacts /\ pc \in { "start", "returned" })
  /\ (keywords # <<>> /\ pc \notin { "start", "mkdirs" }) =>
       (imageFolder # "absent" /\ screenshotFolder = "present")
  /\ (keywords # <<>> /\ AllBlank(keywords) /\ workbook = "saved") =>
       (sheets = << AllKeywords >> /\ cells[AllKeywords] = <<>>)

C5_Witness == keywords = <<>> /\ pc = "returned"

RECURSIVE StrippedNonBlank(_)
StrippedNonBlank(ks) ==
  IF ks = <<>> THEN <<>>
  ELSE IF strip(Head(ks)) = <<>> THEN StrippedNonBlank(Tail(ks))
  ELSE << strip(Head(ks)) >> \o StrippedNonBlank(Tail(ks))

\* number of input terms whose turn in the for loop has come
Progress == IF pc \in ScraperPcs THEN idx ELSE idx - 1

C7_RowCounter ==
  /\ [](\A s \in DOMAIN row_counts : row_counts[s] = DataRows(s) + 1)
  /\ [][ /\ DOMAIN row_counts \subseteq DOMAIN row_counts'
         /\ \A s \in DOMAIN row_counts' :
              IF s \in DOMAIN row_counts
              THEN row_counts'[s] = row_counts[s] + (IF s \in written' THEN 1 ELSE 0)
              ELSE row_counts'[s] = 1 ]_vars

\* two term sheets and the aggregate sheet have advanced separately
C7_Witness ==
  /\ Len(sheets) = 3
  /\ row_counts[sheets[2]] = 2
  /\ row_counts[sheets[3]] = MAX_SCRAPE_ROW
  /\ row_counts[AllKeywords] = MAX_SCRAPE_ROW + 1

RowsKept == \A s \in DOMAIN cells : s \in DOMAIN cells' /\ IsPrefix(cells[s], cells'[s])

\* C8: an exception in scrape_keyword_data never escapes: scrape_keyword_data is
\* left only to the for loop of process_keywords, the step that catches the
\* exception ends the term (the for loop is at the next term), after it (and
\* after a fetch that failed) nothing more is fetched for the term, and no
\* written row is ever removed.
C8_ExceptionEndsTermOnly ==
  /\ [](/\ failed => pc \notin ScraperPcs
        /\ timedOut => pc \notin { "navigate", "fetch", "rows" })
  /\ [][ /\ RowsKept
         /\ pc \in ScraperPcs => pc' \in ScraperPcs \cup { "loop" }
         /\ (failed' /\ ~failed) => (pc' = "loop" /\ idx' = idx + 1) ]_vars

\* an exception at the last row of a page, rows kept, another term to come
C8_Witness ==
  /\ failed
  /\ pc = "loop"
  /\ idx <= Len(keywords)
  /\ DataRows(CurrentSheet) = MAX_SCRAPE_ROW - 1
  /\ AggRowsFrom(CurrentSheet) = MAX_SCRAPE_ROW - 1

\* C9: when the first fetch of a term fails, the batch is empty, the term's sheet
\* has no data row, the aggregate sheet has no row of the term, and
\* scrape_keyword_data returns to the for loop, which moves to the next term.
C9_FirstFetchTimeout ==
  /\ [](timedOut =>
          /\ rows = 0
          /\ DataRows(CurrentSheet) = 0
          /\ AggRowsFrom(CurrentSheet) = 0
          /\ pc \notin { "navigate", "fetch", "rows" })
  /\ [][ (timedOut /\ pc = "screenshot") => (pc' = "loop" /\ idx' = idx + 1) ]_vars

\* the first fetch failed, and the loop is about to start the next term
C9_Witness ==
  /\ timedOut
  /\ pc = "loop"
  /\ idx <= Len(keywords)
  /\ IsNonBlank(keywords[idx])
  /\ DataRows(AllKeywords) = 0

\* C10: save_workbook returns only after a close() that succeeded, which happens
\* once per run; a failed close() waits for the user's acknowledgment before
\* anything else; if the user always acknowledges and close() eventually
\* succeeds, save_workbook returns.
C10_SaveRetries ==
  /\ [](/\ closeOk <= 1
        /\ saveState = "returned" => closeOk = 1
        /\ workbook = "saved" <=> closeOk = 1
        /\ pendingAck => pc = "ack"
        /\ pc = "close" => (saveState = "running" /\ closeOk = 0))
  /\ (pc = "close") ~> (saveState = "returned")

\* a close() failed, the user acknowledged, a later close() succeeded
C10_Witness == closeFailed /\ ~pendingAck /\ saveState = "returned" /\ closeOk = 1

\* ---------------------------------------------------- properties of the cells

\* the sheets that have cells, and the data rows (row index >= 1) among them
DataCells(name) == { p \in DOMAIN grid[name] : p[1] >= 1 }
HeaderCells(name) == { p \in DOMAIN grid[name] : p[1] = 0 }

\* every data cell of column c holds the member order[c + 1], whose declared
\* column index is c, and no data cell lies outside the columns of order
ColumnsAre(order) ==
  \A name \in DOMAIN grid :
    \A p \in DataCells(name) :
      /\ p[2] \in 0 .. Len(order) - 1
      /\ grid[name][p].field = order[p[2] + 1]
      /\ DataAttr(order[p[2] + 1]).column = { p[2] }

\* C11 as stated: write_data_row writes, from column 0 upwards, image, keyword,
\* title, price, seller, item id, shipping cost.
C11_ColumnsAsStated ==
  ColumnsAre(<< "IMAGE_PATH", "KEYWORD", "TITLE", "PRICE", "SELLER", "ITEM_ID", "SHIPPING_COST" >>)

\* C11: write_data_row writes, from column 0 upwards, image, keyword, title,
\* price, shipping cost, seller, item id, each at its declared column index, and
\* every row it writes has the six cells of columns 1 to 6.
C11_Columns ==
  /\ ColumnsAre(<< "IMAGE_PATH", "KEYWORD", "TITLE", "PRICE", "SHIPPING_COST", "SELLER", "ITEM_ID" >>)
  /\ \A name \in DOMAIN grid :
       \A p \in DataCells(name) : \A c \in 1 .. 6 : << p[1], c >> \in DOMAIN grid[name]

\* a row with an embedded image and all its fields is in both sheets
C11_Witness ==
  /\ pc = "elem_done"
  /\ \A name \in DOMAIN grid :
       /\ << 1, 0 >> \in DOMAIN grid[name]
       /\ grid[name][<< 1, 4 >>].kind = "text"
       /\ grid[name][<< 1, 5 >>].kind = "url"
       /\ grid[name][<< 1, 6 >>].kind = "text"

\* C12: in every sheet new_worksheet created, row 0 holds the header of each
\* member that declares one at exactly the member's declared column, which is
\* the column write_data_row writes the member into; row 0 has no other cell
\* (members without header take no column), so reading it by ascending column
\* gives the declared headers ordered by column index.
C12_Headers ==
  \A name \in DOMAIN grid :
    /\ HeaderCells(name) = { << 0, get_enum_col(m) >> : m \in WithHeader }
    /\ \A m \in WithHeader :
         /\ grid[name][<< 0, get_enum_col(m) >>].kind = "header"
         /\ grid[name][<< 0, get_enum_col(m) >>].v = Val(DataAttr(m).header)
    /\ \A p \in DataCells(name) :
         /\ grid[name][p].field \in WithHeader
         /\ grid[name][<< 0, p[2] >>].v = Val(DataAttr(grid[name][p].field).header)
    /\ \A m \in Members \ WithHeader : DataAttr(m).column = {}

\* both sheets have their header row, and a data row under it
C12_Witness ==
  /\ Len(sheets) = 2
  /\ \A i \in 1 .. 2 :
       /\ << 1, 3 >> \in DOMAIN grid[sheets[i]]
       /\ grid[sheets[i]][<< 0, 3 >>].v = Val(<< "Listing Price" >>)
       /\ grid[sheets[i]][<< 1, 3 >>].kind = "currency"

\* the element whose record is about to be written, and that record
Elem == page[rowpos]
Writing == pc \in { "elem_write_keyword", "elem_write_total" }

\* the link lookup failed: no element, no attribute, or an empty attribute
LinkFails(el) == el.href \in { Missing, None, Val(<<>>) }

\* C13: for a listing element whose link lookup fails the record has neither
\* TITLE_HREF nor ITEM_ID and its title cell is written as text (or left empty),
\* not as a hyperlink; a record has ITEM_ID only if it has TITLE_HREF.
C13_NoLinkNoItemId ==
  /\ Writing =>
       /\ LinkFails(Elem) =>
            /\ "TITLE_HREF" \notin DOMAIN parsed.data
            /\ "ITEM_ID" \notin DOMAIN parsed.data
       /\ "ITEM_ID" \in DOMAIN parsed.data =>
            /\ "TITLE_HREF" \in DOMAIN parsed.data
            /\ Truthy(parsed.data["ITEM_ID"]) => Truthy(parsed.data["TITLE_HREF"])
  /\ \A name \in DOMAIN grid :
       \A p \in DataCells(name) :
         (p[2] = get_enum_col("TITLE") /\ LinkFails(page[p[1]])) =>
           /\ grid[name][p].kind \in { "text", "blank" }
           /\ grid[name][p].url = None
           /\ grid[name][<< p[1], get_enum_col("ITEM_ID") >>].kind = "blank"

\* an element whose href attribute is empty has its title written as text in
\* both sheets
C13_Witness ==
  /\ pc = "elem_done"
  /\ page[1].href = Val(<<>>)
  /\ \A name \in DOMAIN grid :
       /\ << 1, 2 >> \in DOMAIN grid[name]
       /\ grid[name][<< 1, 2 >>].kind = "text"

\* the lookup and the transform of a field give a non-empty text
TextFound(found) == found[1] = "value" /\ found[2] # <<>>

\* C14: whatever subset of the lookups and transforms of a listing element
\* fails, parse_data_row raises nothing, the record carries the term, a field is
\* absent exactly when its own extraction failed, and the record is written as
\* one row of the term sheet and one row of the aggregate sheet; the elements
\* after it are processed as well.
C14_FieldFailureKeepsRecord ==
  /\ Writing =>
       LET d == parsed.data
       IN  /\ Get(d, "KEYWORD") = Val(strip(keywords[idx]))
           /\ (Get(d, "TITLE") # None) <=> (Elem.title # Missing)
           /\ ("TITLE_HREF" \in DOMAIN d) <=> TextFound(Elem.href)
           /\ ("ITEM_ID" \in DOMAIN d) <=> TextFound(Elem.href)
           /\ ("SELLER" \in DOMAIN d) <=> TextFound(Elem.seller)
           /\ (Get(d, "IMAGE_URL") # None) <=> (Elem.img # Missing)
           /\ (Get(d, "PRICE") # None) <=> (Elem.price[1] = "value" /\ to_float(Elem.price[2]) # ValueError)
           /\ Truthy(Get(d, "SHIPPING_COST")) <=> (TextFound(Elem.shipping) \/ TextFound(Elem.freeXDays))
  /\ pc \in { "elem_rows", "elem_done" } =>
       \A i \in 1 .. Len(sheets) :
         /\ DataRows(sheets[i]) = rowpos - 1
         /\ \A k \in 1 .. rowpos - 1 : cells[sheets[i]][k].elem = k
  /\ pc = "elem_done" => rowpos = Len(page) + 1

\* an element none of whose lookups gave a value, followed by another element:
\* both are in both sheets
C14_Witness ==
  /\ pc = "elem_done"
  /\ Len(page) = 2
  /\ page[1].title = Missing
  /\ page[1].href = Missing
  /\ page[1].seller = Missing
  /\ page[1].img = Missing
  /\ page[1].price = Val(<< "$", "1", "0", Space, "to", Space, "$", "2", "0" >>)
  /\ page[1].shipping = Missing
  /\ page[1].freeXDays = Missing
  /\ DataRows(AllKeywords) = 2
  /\ DataRows(CurrentSheet) = 2

\* C20: the shipping cost of a record is the text at the primary selector when
\* that text is non-empty, else the text at the fallback selector when that is
\* non-empty, else no text (None or the empty text); the fallback selector is
\* looked up only when the primary gave None or the empty text, and the field
\* is one of the two texts, never a merge.
C20_ShippingFallback ==
  Writing =>
    LET s == Get(parsed.data, "SHIPPING_COST")
        primary == Elem.shipping
        fallback == Elem.freeXDays
    IN  /\ TextFound(primary) =>
             /\ s = primary
             /\ parsed.consulted = << "span.s-item__shipping" >>
        /\ (~TextFound(primary) /\ TextFound(fallback)) => s = fallback
        /\ (~TextFound(primary) /\ ~TextFound(fallback)) => ~Truthy(s)
        /\ ~TextFound(primary) =>
             parsed.consulted = << "span.s-item__shipping", "span.s-item__freeXDays" >>

\* the primary selector gave the empty text and the fallback text is taken
C20_Witness ==
  /\ pc = "elem_write_total"
  /\ Elem.shipping = Val(<<>>)
  /\ TextFound(Elem.freeXDays)
  /\ Get(parsed.data, "SHIPPING_COST") = Elem.freeXDays

\* C19: a write_data_row call for a sheet whose name is empty or is no key of
\* row_counts writes no cell, changes no sheet and no entry of row_counts and
\* raises nothing: process_rows_data goes on to the write to the aggregate
\* sheet, which writes its row.
C19_UnknownSheetNoEffect ==
  [][ /\ ( /\ pc = "elem_write_keyword"
           /\ \/ SheetName(getName, strip(keywords[idx])) = <<>>
              \/ SheetName(getName, strip(keywords[idx])) \notin DOMAIN row_counts )
        => /\ row_counts' = row_counts
           /\ cells' = cells
           /\ grid' = grid
           /\ written' = {}
           /\ pc' = "elem_write_total"
      /\ pc = "elem_write_total" => written' = { AllKeywords }
    ]_vars

\* write_data_row was called with a sheet row_counts does not know, then with
\* the aggregate sheet: only the latter has the row
C19_Witness ==
  /\ pc = "elem_done"
  /\ getName = "foreign"
  /\ DOMAIN grid = { AllKeywords, strip(keywords[1]) }
  /\ DataRows(AllKeywords) = Len(page)
  /\ DataRows(strip(keywords[1])) = 0
  /\ row_counts[strip(keywords[1])] = InitialRowCount

\* --------------------------------------------- properties of the run (cont.)

\* the data rows of the term sheets from sheet number i on, one sheet after the other
RECURSIVE TermRowsFrom(_)
TermRowsFrom(i) ==
  IF i > Len(sheets) THEN <<>> ELSE cells[sheets[i]] \o TermRowsFrom(i + 1)

\* C15: terms are handled one after the other and the elements of a term in
\* document order: the data rows of the aggregate sheet are the data rows of the
\* term sheets concatenated in the order of the terms, and the data row of index
\* k of a term sheet holds the k-th listing element processed for the term.
C15_InputOrder ==
  Len(sheets) >= 1 =>
    /\ cells[AllKeywords] = TermRowsFrom(2)
    /\ \A i \in TermSheetIdx :
         \A k \in 1 .. DataRows(sheets[i]) :
           /\ cells[sheets[i]][k].kw = sheets[i]
           /\ cells[sheets[i]][k].elem = k
    /\ pc \in ScraperPcs => \A i \in 2 .. Len(sheets) - 1 : TermReturned(i)

\* C16 as stated: a batch fetch_data_rows returned never holds more than
\* MAX_SCRAPE_ROW listing elements.
C16_BatchCapped == rows <= MAX_SCRAPE_ROW

\* C16: a batch fetch_data_rows returned holds every listing element the
\* results page holds, also when these are more than MAX_SCRAPE_ROW; the cap
\* is kept by process_rows_data, which handles at most MAX_SCRAPE_ROW of them.
C16_BatchIsWholePage ==
  /\ rows = pageSize
  /\ processed_row_count <= MAX_SCRAPE_ROW
  /\ pc = "rows" => rowpos <= MAX_SCRAPE_ROW + 1

\* a batch of more than MAX_SCRAPE_ROW elements, of which MAX_SCRAPE_ROW were
\* processed and the others left
C16_Witness ==
  /\ rows > MAX_SCRAPE_ROW
  /\ processed_row_count = MAX_SCRAPE_ROW
  /\ rowpos = MAX_SCRAPE_ROW + 1
  /\ pc = "loop"

\* C17 as stated: per term at most one screenshot succeeds, and a screenshot
\* is attempted only for a fetch that succeeded and returned listing elements.
C17_ShotOnlyOfFetchedPage ==
  /\ shots[2] <= 1
  /\ shots[1] > 0 => (~timedOut /\ rows > 0)

\* C17: per term at most one screenshot succeeds, a screenshot is attempted
\* only right after a fetch, and it is attempted after every fetch made while
\* no screenshot has succeeded, whatever the fetch returned (a batch, no
\* element, or nothing because it timed out or failed).
C17_ShotAfterEveryFetch ==
  [][ /\ shots'[2] <= 1
      /\ shots'[1] <= fetches'
      /\ shots'[1] > shots[1] => pc = "screenshot"
      /\ pc' = "screenshot" => pc = "fetch"
      /\ (pc = "fetch" /\ ~screenshot_taken) => pc' = "screenshot"
    ]_vars

\* the first fetch of a term failed and the screenshot taken after it succeeded
C17_Witness ==
  /\ timedOut
  /\ rows = 0
  /\ shots = <<1, 1, 0>>
  /\ screenshot_taken

Min(a, b) == IF a <= b THEN a ELSE b

\* C18: the rows written for a term depend on the batch fetched and not on the
\* outcome of the screenshot.  A term whose only fetch returned a batch and in
\* which nothing but the screenshot failed has as many rows as a term whose
\* screenshot succeeded: as many as the batch holds, up to MAX_SCRAPE_ROW, in
\* its sheet and in the aggregate sheet, after one fetch.
C18_ScreenshotNeutral ==
  ( /\ Len(sheets) >= 2
    /\ pc \notin ScraperPcs
    /\ fetches = 1
    /\ ~timedOut
    /\ failed => shots[3] > 0 ) =>
      /\ DataRows(CurrentSheet) = Min(rows, MAX_SCRAPE_ROW)
      /\ AggRowsFrom(CurrentSheet) = Min(rows, MAX_SCRAPE_ROW)

\* C21: for every term, fetch_data_rows is called at most once: when the first
\* batch has been handled, it was empty, or an exception ended the term, or it
\* held fewer than MAX_SCRAPE_ROW elements, or processed_row_count has reached
\* MAX_SCRAPE_ROW, so the while loop of scrape_keyword_data is left and never
\* goes from a handled batch to another fetch.
C21_SingleFetch ==
  /\ [](/\ fetches <= 1
        /\ pc = "fetch" => fetches = 0
        /\ (fetches = 1 /\ pc \notin ScraperPcs) =>
             \/ rows = 0
             \/ failed
             \/ rows < MAX_SCRAPE_ROW /\ ~has_more_rows
             \/ processed_row_count = MAX_SCRAPE_ROW)
  /\ [][ (pc \in { "screenshot", "rows" }) => (pc' # "fetch") ]_vars

\* a batch of exactly MAX_SCRAPE_ROW elements was processed without an
\* exception: has_more_rows is still True, and the loop was left after one fetch
C21_Witness ==
  /\ pc = "loop"
  /\ fetches = 1
  /\ rows = MAX_SCRAPE_ROW
  /\ has_more_rows
  /\ ~failed
  /\ processed_row_count = MAX_SCRAPE_ROW

====
